---------------------------- MODULE Spec2Model ----------------------------
(***************************************************************************)
(* CalQLux photometric calculation engine.                                 *)
(*                                                                         *)
(* Four parts of the program are modelled, each with its own variables     *)
(* and its own specification:                                              *)
(*   SpecParse   IESParser.parse (header, tilt, lamp/ballast, arrays)      *)
(*   SpecInterp  IESParser.getIntensityAtAngle                             *)
(*   SpecGrid    calculatePointByPoint and the uniformity statistics       *)
(*   SpecCU      the coefficient-of-utilization functions                  *)
(* Further parts are modelled below them:                                  *)
(*   SpecAnyRequest, SpecDamaged, SpecGlare, SpecSim                       *)
(*   SpecWorkers the grid loop split by row over workers                   *)
(*   SpecApp     the application script: submit, deferred calculation      *)
(*   SpecStore   saveProject, loadProject, deleteProject                   *)
(*                                                                         *)
(* JavaScript numbers are modelled as records: a finite number carries an  *)
(* integer, NaN and the infinities are kinds of their own.  Real-valued    *)
(* quantities are integers at a stated fixed-point scale.                  *)
(***************************************************************************)
EXTENDS Integers, Sequences, FiniteSets, TLC

VARIABLES
    \* ---- IESParser.parse
    lines,        \* the file split into lines; a line is a sequence of tokens
    input,        \* how the file at hand was laid out (declared counts, wraps)
    ppc,          \* position of parse: "idle","header","tilt","photometric","done","error"
    lineIndex,    \* the line cursor handed from phase to phase (0-based)
    header,       \* parseHeader's data
    tilt,         \* parseTilt's data
    photometric,  \* parsePhotometricData's data
    \* ---- IESParser.getIntensityAtAngle
    dataset,      \* the photometric data queried: angle arrays and candela matrix
    query,        \* the last query: <<verticalAngle, horizontalAngle>>, <<>> before any
    intensity,    \* the last result, a fraction [n, d] with d > 0
    \* ---- calculatePointByPoint, calculateUniformity
    gpc,          \* "idle", "ready", "calculated", "analysed"
    params,       \* the request: room, workplane, luminaires, reflectances, calculation
    results,      \* calculatePointByPoint's return value
    stats,        \* calculateUniformity(results.grid) of uniformity.js
    \* ---- coefficient of utilization
    cupc,         \* "idle", "ready", "done"
    roomConfig,   \* room and reflectances, and the luminaire's type
    cuFn,         \* which of the functions produced cu
    cu,           \* the coefficient returned, in 1/10000
    \* ---- calculateVCP
    glare,        \* the call, the bindings of its free identifiers, its outcome
    \* ---- the application's own calculatePointByPoint
    sim,          \* the request and the results of its invocations so far
    \* ---- the grid loop split over workers
    par,          \* the rows done, each worker's statistics, the reduced result
    \* ---- the application script (form submit, deferred calculation)
    app,          \* appState, the form, the pending timers, the export buttons
    \* ---- ProjectManager
    store         \* the projects held in storage, and the last call

parseVars == <<lines, input, ppc, lineIndex, header, tilt, photometric>>
interpVars == <<dataset, query, intensity>>
gridVars == <<gpc, params, results, stats>>
cuVars == <<cupc, roomConfig, cuFn, cu>>
\* the state of the parts modelled further below
restVars == <<glare, sim, par, app, store>>

vars == <<lines, input, ppc, lineIndex, header, tilt, photometric,
          dataset, query, intensity, gpc, params, results, stats,
          cupc, roomConfig, cuFn, cu, glare, sim, par, app, store>>

(***************************************************************************)
(* JavaScript numbers.                                                     *)
(***************************************************************************)
Num(n) == [k |-> "num", v |-> n]
NaN == [k |-> "nan", v |-> 0]
IsNum(x) == x.k = "num"

Infinity == [k |-> "inf", v |-> 1]
NegInfinity == [k |-> "inf", v |-> -1]

\* a < b of two JS numbers: false as soon as one of them is NaN
JsLess(a, b) == IsNum(a) /\ IsNum(b) /\ a.v < b.v

\* Math.min, Math.max and + of numbers that are finite or NaN
JsMin(a, b) == IF ~IsNum(a) \/ ~IsNum(b) THEN NaN ELSE IF a.v <= b.v THEN a ELSE b
JsMax(a, b) == IF ~IsNum(a) \/ ~IsNum(b) THEN NaN ELSE IF a.v >= b.v THEN a ELSE b
JsAdd(a, b) == IF ~IsNum(a) \/ ~IsNum(b) THEN NaN ELSE Num(a.v + b.v)

\* the integer nearest to a/b, halves upwards (Math.round), for b > 0
RoundDiv(a, b) == (2 * a + b) \div (2 * b)

\* the integer nearest to a/b, halves away from zero (toFixed), for b # 0
Abs(a) == IF a < 0 THEN -a ELSE a
Sign(a) == IF a < 0 THEN -1 ELSE IF a > 0 THEN 1 ELSE 0
RoundDivAway(a, b) == Sign(a) * Sign(b) * ((2 * Abs(a) + Abs(b)) \div (2 * Abs(b)))

(***************************************************************************)
(* Tokens and lines.  A token is a sequence of characters; a digit is one  *)
(* character, and the fixed words of the format ("TILT=", "NONE", ...) are *)
(* each one character of the model.                                        *)
(***************************************************************************)
Digits == <<"0", "1", "2", "3", "4", "5", "6", "7", "8", "9">>

IsDigit(c) == \E d \in 1..10 : Digits[d] = c

DigitVal(c) == (CHOOSE d \in 1..10 : Digits[d] = c) - 1

\* lampLine[i] of a JS array (0-based): undefined past the end
Undefined == <<"undefined">>

At(arr, i) == IF i + 1 <= Len(arr) THEN arr[i + 1] ELSE Undefined

\* the decimal text of a natural number, as the file holds it
RECURSIVE NumToTok(_)
NumToTok(n) ==
    IF n < 10 THEN <<Digits[n + 1]>>
    ELSE NumToTok(n \div 10) \o <<Digits[(n % 10) + 1]>>

\* the value of the longest prefix of digits, NaN when there is none
RECURSIVE DigitPrefix(_, _, _)
DigitPrefix(tok, i, acc) ==
    IF i > Len(tok) \/ ~IsDigit(tok[i]) THEN acc
    ELSE DigitPrefix(tok, i + 1, acc * 10 + DigitVal(tok[i]))

ParseFloat(tok) ==
    IF tok = <<>> \/ ~IsDigit(tok[1]) THEN NaN ELSE Num(DigitPrefix(tok, 1, 0))

ParseInt(tok) ==
    IF tok = <<>> \/ ~IsDigit(tok[1]) THEN NaN ELSE Num(DigitPrefix(tok, 1, 0))

RECURSIVE MapParseFloat(_)
MapParseFloat(toks) ==
    IF toks = <<>> THEN <<>>
    ELSE <<ParseFloat(Head(toks))>> \o MapParseFloat(Tail(toks))

\* Number(array), the conversion "h < data.horizontalAngles" performs: the
\* array is joined with commas and the text read as a number
ArrayToNumber(arr) ==
    IF Len(arr) = 0 THEN Num(0)
    ELSE IF Len(arr) = 1 THEN arr[1]
    ELSE NaN


(***************************************************************************)
(* The values the variables of a part hold while it is not in use.         *)
(***************************************************************************)
NoDataset == [verticalAngles |-> <<>>, horizontalAngles |-> <<>>, candela |-> <<>>]

NoIntensity == [n |-> 0, d |-> 1]

NoParams == [calculation |-> [gridSpacing |-> 0]]

NoResults == [grid |-> <<>>]

NoStats == [min |-> NaN]

NoRoomConfig == [length |-> 0]

NoGlare == [pc |-> "idle"]

NoSim == [pc |-> "idle"]

NoPar == [pc |-> "idle"]

NoApp == [pc |-> "idle"]

NoStore == [pc |-> "idle"]

(***************************************************************************)
(* Bounds of the files the parser is run on.                               *)
(***************************************************************************)
MaxV == 3        \* declared vertical-angle counts 1..MaxV
MaxH == 2        \* declared horizontal-angle counts 1..MaxH
MaxWrap == 3     \* numeric tokens per physical line 1..MaxWrap

TiltModes == {"NONE", "INCLUDE", "FILE", "MISSING"}

(***************************************************************************)
(* The text of an LM-63 file, as lines of tokens.                          *)
(***************************************************************************)
\* the j-th vertical angle and the i-th horizontal angle of a generated file
VAngleOf(j) == (j - 1) * 45
HAngleOf(i, first) == first + (i - 1) * 90
\* the candela value at horizontal position i, vertical position j
CandelaOf(i, j) == 100 * i + j

\* a token stream cut into physical lines of at most w tokens
RECURSIVE Chunk(_, _)
Chunk(toks, w) ==
    IF toks = <<>> THEN <<>>
    ELSE IF Len(toks) <= w THEN <<toks>>
    ELSE <<SubSeq(toks, 1, w)>> \o Chunk(SubSeq(toks, w + 1, Len(toks)), w)

RECURSIVE Concat(_)
Concat(ss) == IF ss = <<>> THEN <<>> ELSE Head(ss) \o Concat(Tail(ss))

HeaderLines ==
    << << <<"IESNA:", "LM-63-2002">> >>,
       << <<"[", "TEST", "]">>, <<"R1">> >>,
       << <<"remark">> >> >>

TiltLines(mode) ==
    IF mode = "NONE" THEN << << <<"TILT=", "NONE">> >> >>
    ELSE IF mode = "FILE" THEN << << <<"TILT=", "FILE", "=", "t.tlt">> >> >>
    ELSE IF mode = "INCLUDE" THEN
        << << <<"TILT=", "INCLUDE">> >>,
           <<NumToTok(1)>>,
           <<NumToTok(2)>>,
           <<NumToTok(0), NumToTok(90)>>,
           <<NumToTok(1), NumToTok(1)>> >>
    ELSE <<>>

LampLine(nV, nH) ==
    <<NumToTok(1), NumToTok(5000), NumToTok(1), NumToTok(nV), NumToTok(nH),
      NumToTok(1), NumToTok(2), NumToTok(0), NumToTok(0), NumToTok(0)>>

BallastLine == <<NumToTok(1), NumToTok(1), NumToTok(50)>>

VTokens(nV) == [j \in 1..nV |-> NumToTok(VAngleOf(j))]
HTokens(nH, first) == [i \in 1..nH |-> NumToTok(HAngleOf(i, first))]
CTokens(i, nV) == [j \in 1..nV |-> NumToTok(CandelaOf(i, j))]

\* every array starts on a line of its own and wraps after w tokens
FileLines(in) ==
    HeaderLines \o TiltLines(in.tilt)
    \o <<LampLine(in.nV, in.nH), BallastLine>>
    \o Chunk(VTokens(in.nV), in.wrapA)
    \o Chunk(HTokens(in.nH, in.hFirst), in.wrapA)
    \o Concat([i \in 1..in.nH |-> Chunk(CTokens(i, in.nV), in.wrapC)])

Inputs ==
    [nV : 1..MaxV, nH : 1..MaxH, hFirst : {0, 1},
     wrapA : 1..MaxWrap, wrapC : 1..MaxWrap, tilt : TiltModes]

(***************************************************************************)
(* IESParser.parseHeader                                                   *)
(***************************************************************************)
LineIncludes(line, c) ==
    \E t \in 1..Len(line) : \E i \in 1..Len(line[t]) : line[t][i] = c

LineStartsWith(line, c) ==
    Len(line) >= 1 /\ Len(line[1]) >= 1 /\ line[1][1] = c

\* the first line index at or after i that begins the tilt section, or the
\* number of lines when there is none
RECURSIVE KeywordsEnd(_, _)
KeywordsEnd(ls, i) ==
    IF i >= Len(ls) THEN i
    ELSE IF LineStartsWith(ls[i + 1], "TILT=") THEN i
    ELSE KeywordsEnd(ls, i + 1)

\* a "[KEY] value" line: the key and the rest of the line
IsKeywordLine(line) ==
    /\ LineStartsWith(line, "[")
    /\ LineIncludes(line, "]")
    /\ Len(line[1]) = 3 /\ line[1][3] = "]"

ParseHeaderData(ls) ==
    LET start == IF LineIncludes(ls[1], "IESNA:") THEN 1 ELSE 0
        stop == KeywordsEnd(ls, start)
    IN [ format |-> IF start = 1 THEN ls[1] ELSE <<>>,
         keywords |-> { <<ls[i + 1][1][2], Tail(ls[i + 1])>> :
                          i \in { n \in start..(stop - 1) : IsKeywordLine(ls[n + 1]) } },
         endLine |-> stop ]

(***************************************************************************)
(* IESParser.parseTilt                                                     *)
(***************************************************************************)
TiltSkip == 10    \* lines skipped after TILT=INCLUDE

\* "thrown" when lines[startLine] is undefined (trim of undefined)
ParseTiltData(ls, startLine) ==
    IF startLine >= Len(ls) THEN [ok |-> FALSE, type |-> "NONE", file |-> <<>>, endLine |-> startLine]
    ELSE
      LET tiltLine == ls[startLine + 1] IN
      IF tiltLine = << <<"TILT=", "NONE">> >> THEN
          [ok |-> TRUE, type |-> "NONE", file |-> <<>>, endLine |-> startLine + 1]
      ELSE IF tiltLine = << <<"TILT=", "INCLUDE">> >> THEN
          [ok |-> TRUE, type |-> "INCLUDE", file |-> <<>>, endLine |-> startLine + 1 + TiltSkip]
      ELSE IF Len(tiltLine) >= 1 /\ Len(tiltLine[1]) >= 2
              /\ tiltLine[1][1] = "TILT=" /\ tiltLine[1][2] = "FILE" THEN
          [ok |-> TRUE, type |-> "FILE",
           file |-> SubSeq(tiltLine[1], 4, Len(tiltLine[1])), endLine |-> startLine + 1]
      ELSE [ok |-> TRUE, type |-> "NONE", file |-> <<>>, endLine |-> startLine + 1]

(***************************************************************************)
(* IESParser.parsePhotometricData                                          *)
(***************************************************************************)
\* one array read: each physical line is appended to the line buffer, the
\* whole buffer is split and parsed, and all its values are pushed, until
\* the array is at least count long.  ok is FALSE when the lines run out
\* (trim of undefined throws).
RECURSIVE ReadTokens(_, _, _, _, _)
ReadTokens(ls, idx, buffer, out, count) ==
    IF ~JsLess(Num(Len(out)), count) THEN [ok |-> TRUE, out |-> out, idx |-> idx]
    ELSE IF idx >= Len(ls) THEN [ok |-> FALSE, out |-> out, idx |-> idx]
    ELSE LET buffer2 == buffer \o ls[idx + 1]
         IN ReadTokens(ls, idx + 1, buffer2, out \o MapParseFloat(buffer2), count)

\* for (h = 0; h < data.horizontalAngles; h++): one row per iteration
RECURSIVE ReadCandela(_, _, _, _, _, _)
ReadCandela(ls, idx, h, limit, count, rows) ==
    IF ~JsLess(Num(h), limit) THEN [ok |-> TRUE, out |-> rows, idx |-> idx]
    ELSE LET r == ReadTokens(ls, idx, <<>>, <<>>, count)
         IN IF ~r.ok THEN [ok |-> FALSE, out |-> rows, idx |-> r.idx]
            ELSE ReadCandela(ls, r.idx, h + 1, limit, count, Append(rows, r.out))

\* the bound of the candela loop: data.horizontalAngles is by then the array
CandelaLoopLimit(horizontalAngles) == ArrayToNumber(horizontalAngles)

NoData == [ok |-> FALSE]

ParsePhotometricDataOf(ls, startLine) ==
    IF startLine + 1 >= Len(ls) THEN NoData
    ELSE
      LET lampLine == ls[startLine + 1]
          ballastLine == ls[startLine + 2]
          angleCount == ParseInt(At(lampLine, 3))
          hCount == ParseInt(At(lampLine, 4))
          v == ReadTokens(ls, startLine + 2, <<>>, <<>>, angleCount)
          h == ReadTokens(ls, v.idx, <<>>, <<>>, hCount)
          c == ReadCandela(ls, h.idx, 0, CandelaLoopLimit(h.out), angleCount, <<>>)
      IN IF ~v.ok \/ ~h.ok \/ ~c.ok THEN NoData
         ELSE [ ok |-> TRUE,
                lampCount |-> ParseInt(At(lampLine, 0)),
                lumensPerLamp |-> ParseFloat(At(lampLine, 1)),
                candleMultiplier |-> ParseFloat(At(lampLine, 2)),
                angleCount |-> angleCount,
                photometricType |-> ParseInt(At(lampLine, 5)),
                unitType |-> ParseInt(At(lampLine, 6)),
                width |-> ParseFloat(At(lampLine, 7)),
                length |-> ParseFloat(At(lampLine, 8)),
                height |-> ParseFloat(At(lampLine, 9)),
                ballastFactor |-> ParseFloat(At(ballastLine, 0)),
                ballastLampFactor |->
                    IF At(ballastLine, 1) = Undefined THEN Num(1)
                    ELSE ParseFloat(At(ballastLine, 1)),
                inputWatts |->
                    IF At(ballastLine, 2) = Undefined THEN Num(0)
                    ELSE ParseFloat(At(ballastLine, 2)),
                verticalAngles |-> v.out,
                horizontalAngles |-> h.out,
                candela |-> c.out,
                endLine |-> c.idx ]

(***************************************************************************)
(* IESParser.parse: the three phases, one after the other.                 *)
(***************************************************************************)
NoHeader == [format |-> <<>>, keywords |-> {}, endLine |-> 0]
NoTilt == [ok |-> FALSE, type |-> "NONE", file |-> <<>>, endLine |-> 0]

InitParse ==
    /\ input \in Inputs
    /\ lines = FileLines(input)
    /\ ppc = "header"
    /\ lineIndex = 0
    /\ header = NoHeader
    /\ tilt = NoTilt
    /\ photometric = NoData
    \* the other parts of the program are not in use
    /\ dataset = NoDataset /\ query = <<>> /\ intensity = NoIntensity
    /\ gpc = "idle" /\ params = NoParams /\ results = NoResults /\ stats = NoStats
    /\ cupc = "idle" /\ roomConfig = NoRoomConfig /\ cuFn = "" /\ cu = 0
    /\ glare = NoGlare /\ sim = NoSim
    /\ par = NoPar /\ app = NoApp /\ store = NoStore

ParseHeader ==
    /\ ppc = "header"
    /\ header' = ParseHeaderData(lines)
    /\ lineIndex' = header'.endLine
    /\ ppc' = "tilt"
    /\ UNCHANGED <<lines, input, tilt, photometric, interpVars, gridVars, cuVars, restVars>>

ParseTilt ==
    /\ ppc = "tilt"
    /\ tilt' = ParseTiltData(lines, lineIndex)
    /\ lineIndex' = tilt'.endLine
    /\ ppc' = IF tilt'.ok THEN "photometric" ELSE "error"
    /\ UNCHANGED <<lines, input, header, photometric, interpVars, gridVars, cuVars, restVars>>

ParsePhotometricData ==
    /\ ppc = "photometric"
    /\ photometric' = ParsePhotometricDataOf(lines, lineIndex)
    /\ ppc' = IF photometric'.ok THEN "done" ELSE "error"
    /\ lineIndex' = IF photometric'.ok THEN photometric'.endLine ELSE lineIndex
    /\ UNCHANGED <<lines, input, header, tilt, interpVars, gridVars, cuVars, restVars>>


(***************************************************************************)
(* IESParser.getIntensityAtAngle.  Angles are whole degrees and candela    *)
(* values integers; the interpolated intensity is kept as the exact        *)
(* fraction n/d of the bilinear formula (the code's floating-point         *)
(* rounding is not modelled).                                              *)
(***************************************************************************)
MaxAngles == 2   \* angle arrays of 1..MaxAngles entries
MaxCd == 5       \* candela values are 0 or MaxCd

VGrid == {0, 90, 180}
HGrid == {0, 90, 270}
QueryV == {-10, 0, 30, 90, 135, 180, 200}
QueryH == {-350, -90, 0, 10, 90, 180, 270, 370, 450}

\* a normalisation that adjusts by one turn only (if in place of while)
NormalizeHorizontalOnce(h) ==
    IF h < 0 THEN h + 360 ELSE IF h >= 360 THEN h - 360 ELSE h

\* while (h < 0) h += 360; while (h >= 360) h -= 360
RECURSIVE NormalizeHorizontal(_)
NormalizeHorizontal(h) ==
    IF h < 0 THEN NormalizeHorizontal(h + 360)
    ELSE IF h >= 360 THEN NormalizeHorizontal(h - 360)
    ELSE h

Min2(a, b) == IF a <= b THEN a ELSE b
Max2(a, b) == IF a >= b THEN a ELSE b

ClampVertical(v) == Max2(0, Min2(180, v))

\* the bracketing loop: the first i with angles[i] <= q <= angles[i+1];
\* when the loop finds none the indices stay 0 and length-1 (0-based)
RECURSIVE FindBracketFrom(_, _, _)
FindBracketFrom(angles, q, i) ==
    IF i >= Len(angles) - 1 THEN [lower |-> 0, upper |-> Len(angles) - 1]
    ELSE IF q >= angles[i + 1] /\ q <= angles[i + 2] THEN [lower |-> i, upper |-> i + 1]
    ELSE FindBracketFrom(angles, q, i + 1)

FindBracket(angles, q) == FindBracketFrom(angles, q, 0)

\* a ratio taken from the query angle itself, not from its offset in the bracket
InterpRatioNoOffset(angles, b, q) ==
    LET delta == angles[b.upper + 1] - angles[b.lower + 1]
    IN IF delta > 0 THEN [n |-> q, d |-> delta]
       ELSE [n |-> 0, d |-> 1]

\* ratio = delta > 0 ? (q - angles[lower]) / delta : 0, as a fraction
InterpRatio(angles, b, q) ==
    LET delta == angles[b.upper + 1] - angles[b.lower + 1]
    IN IF delta > 0 THEN [n |-> q - angles[b.lower + 1], d |-> delta]
       ELSE [n |-> 0, d |-> 1]

GetIntensityAtAngle(data, verticalAngle, horizontalAngle) ==
    LET h == NormalizeHorizontal(horizontalAngle)
        v == ClampVertical(verticalAngle)
        bv == FindBracket(data.verticalAngles, v)
        bh == FindBracket(data.horizontalAngles, h)
        i1 == data.candela[bh.lower + 1][bv.lower + 1]
        i2 == data.candela[bh.lower + 1][bv.upper + 1]
        i3 == data.candela[bh.upper + 1][bv.lower + 1]
        i4 == data.candela[bh.upper + 1][bv.upper + 1]
        vR == InterpRatio(data.verticalAngles, bv, v)
        hR == InterpRatio(data.horizontalAngles, bh, h)
    IN [ n |-> i1 * (hR.d - hR.n) * (vR.d - vR.n)
             + i2 * (hR.d - hR.n) * vR.n
             + i3 * hR.n * (vR.d - vR.n)
             + i4 * hR.n * vR.n,
         d |-> hR.d * vR.d ]

\* strictly ascending arrays of 1..MaxAngles angles taken from a grid
AscendingArrays(grid) ==
    { a \in UNION { [1..n -> grid] : n \in 1..MaxAngles } :
        \A i \in 1..(Len(a) - 1) : a[i] < a[i + 1] }

Datasets ==
    UNION { { [verticalAngles |-> va, horizontalAngles |-> ha, candela |-> c] :
                c \in [1..Len(ha) -> [1..Len(va) -> {0, MaxCd}]] } :
            <<va, ha>> \in AscendingArrays(VGrid) \X AscendingArrays(HGrid) }


InitInterp ==
    /\ dataset \in Datasets
    /\ query = <<>>
    /\ intensity = NoIntensity
    \* the other parts of the program are not in use
    /\ lines = <<>> /\ input = [tilt |-> "NONE"] /\ ppc = "idle" /\ lineIndex = 0
    /\ header = NoHeader /\ tilt = NoTilt /\ photometric = NoData
    /\ gpc = "idle" /\ params = NoParams /\ results = NoResults /\ stats = NoStats
    /\ cupc = "idle" /\ roomConfig = NoRoomConfig /\ cuFn = "" /\ cu = 0
    /\ glare = NoGlare /\ sim = NoSim
    /\ par = NoPar /\ app = NoApp /\ store = NoStore

QueryIntensity ==
    /\ dataset # NoDataset
    /\ query = <<>>
    /\ \E v \in QueryV, h \in QueryH :
        /\ query' = <<v, h>>
        /\ intensity' = GetIntensityAtAngle(dataset, v, h)
    /\ UNCHANGED <<dataset, parseVars, gridVars, cuVars, restVars>>

(***************************************************************************)
(* calculatePointByPoint (calculations/index.js).                          *)
(*                                                                         *)
(* Fixed-point scales: a length of the request is given in tenths of its   *)
(* unit; a length in metres is an integer count of 1e-5 m; distances of    *)
(* the radiometric part are centimetres; a cosine and its cube are per     *)
(* mille; a luminous intensity is in tenths of a candela; an illuminance   *)
(* before rounding is in hundredths of a lux.  Math.sqrt is the integer    *)
(* square root at that scale.                                              *)
(***************************************************************************)
MaxLum == 2      \* luminaire rows and columns 0..MaxLum

\* unit === 'ft' ? value * 0.3048 : value
ToMetres(value, unit) == IF unit = "ft" THEN value * 3048 ELSE value * 10000

\* a point count that rounds the quotient up (Math.ceil in place of Math.floor)
GridPointsCeil(extentM, spacingM) == ((extentM + spacingM - 1) \div spacingM) + 1

\* Math.floor(extent / spacing) + 1
GridPoints(extentM, spacingM) == (extentM \div spacingM) + 1

RECURSIVE ISqrtBetween(_, _, _)
ISqrtBetween(n, lo, hi) ==
    IF lo >= hi THEN lo
    ELSE LET mid == (lo + hi + 1) \div 2
         IN IF mid * mid <= n THEN ISqrtBetween(n, mid, hi)
            ELSE ISqrtBetween(n, lo, mid - 1)

ISqrt(n) == ISqrtBetween(n, 0, 46340)

ToCm(u) == RoundDiv(u, 1000)

\* luminaires.flux / (4 * Math.PI), in tenths of a candela
LuminousIntensity(flux) == RoundDiv(flux * 100000, 125664)

\* x / (xPoints - 1) * lengthM: NaN (0/0) when the axis has a single point
Coord(i, points, extentM) ==
    IF points = 1 THEN NaN ELSE Num((i * extentM) \div (points - 1))

\* the metre values and point counts of lines 15-23
Geometry(p) ==
    LET lengthM == ToMetres(p.room.length, p.room.lengthUnit)
        widthM == ToMetres(p.room.width, p.room.widthUnit)
        gridSpacingM == p.calculation.gridSpacing * 10000
    IN [ lengthM |-> lengthM,
         widthM |-> widthM,
         heightM |-> ToMetres(p.room.height, p.room.heightUnit),
         workplaneHeightM |-> ToMetres(p.workplane.height, p.workplane.heightUnit),
         gridSpacingM |-> gridSpacingM,
         xPoints |-> GridPoints(lengthM, gridSpacingM),
         yPoints |-> GridPoints(widthM, gridSpacingM) ]

\* the contribution of luminaire (lr, lc) at (xCoord, yCoord), hundredths of a lux
Contribution(p, g, xCoord, yCoord, lr, lc) ==
    IF ~IsNum(xCoord) \/ ~IsNum(yCoord) THEN NaN
    ELSE
      LET lxPos == ((2 * lc + 1) * g.lengthM) \div (2 * p.luminaires.columns)
          lyPos == ((2 * lr + 1) * g.widthM) \div (2 * p.luminaires.rows)
          lzPos == g.heightM - p.luminaires.suspensionHeight * 10000
          dx == ToCm(xCoord.v - lxPos)
          dy == ToCm(yCoord.v - lyPos)
          dz == ToCm(lzPos - g.workplaneHeightM)
          distance2 == dx * dx + dy * dy + dz * dz
          distance == ISqrt(distance2)
      IN IF distance2 = 0 THEN NaN
         ELSE LET cosTheta == RoundDivAway(dz * 1000, distance)
                  cos3 == RoundDivAway(cosTheta * cosTheta * cosTheta, 1000000)
              IN Num(RoundDivAway(LuminousIntensity(p.luminaires.flux) * cos3 * 100,
                                  distance2))

\* the two luminaire loops, rows outermost: k counts the luminaires done
RECURSIVE SumContributions(_, _, _, _, _, _)
SumContributions(p, g, xCoord, yCoord, k, acc) ==
    IF k >= p.luminaires.rows * p.luminaires.columns THEN acc
    ELSE SumContributions(p, g, xCoord, yCoord, k + 1,
            JsAdd(acc, Contribution(p, g, xCoord, yCoord,
                                    k \div p.luminaires.columns,
                                    k % p.luminaires.columns)))

\* 1 + 0.4 ceiling/100 + 0.4 walls/100 + 0.2 floor/100, per mille
ReflectionFactor(r) == 1000 + 4 * r.ceiling + 4 * r.walls + 2 * r.floor

\* an accumulator that starts from the point's position (xPos * 0) in place of 0
FinalIlluminanceSeeded(p, g, x, y) ==
    LET xCoord == Coord(x, g.xPoints, g.lengthM)
        yCoord == Coord(y, g.yPoints, g.widthM)
        seed == IF IsNum(xCoord) /\ IsNum(yCoord) THEN Num(0) ELSE NaN
        point == SumContributions(p, g, xCoord, yCoord, 0, seed)
    IN IF ~IsNum(point) THEN NaN
       ELSE Num(RoundDiv(point.v * ReflectionFactor(p.reflectances), 100000))

\* Math.round(pointIlluminance * reflectionFactor)
FinalIlluminance(p, g, x, y) ==
    LET point == SumContributions(p, g, Coord(x, g.xPoints, g.lengthM),
                                  Coord(y, g.yPoints, g.widthM), 0, Num(0))
    IN IF ~IsNum(point) THEN NaN
       ELSE Num(RoundDiv(point.v * ReflectionFactor(p.reflectances), 100000))

IlluminanceGrid(p, g) ==
    [y \in 1..g.yPoints |-> [x \in 1..g.xPoints |-> FinalIlluminance(p, g, x - 1, y - 1)]]

\* Number.MAX_VALUE, the largest finite number
NumberMaxValue == Num(2147483647)

\* the running statistics of the two loops: min, max and total
StartStats == [min |-> NumberMaxValue, max |-> Num(0), total |-> Num(0), count |-> 0]

\* statistics whose minimum is the value seen last
UpdateStatsLast(acc, value) ==
    [ min |-> value,
      max |-> JsMax(acc.max, value),
      total |-> JsAdd(acc.total, value),
      count |-> acc.count + 1 ]

UpdateStats(acc, value) ==
    [ min |-> JsMin(acc.min, value),
      max |-> JsMax(acc.max, value),
      total |-> JsAdd(acc.total, value),
      count |-> acc.count + 1 ]

\* the inner loop over the cells x..end of one row.  (The test on count has
\* the statistics evaluated at every step, as the loop does, not at its end.)
RECURSIVE RowStats(_, _, _)
RowStats(row, x, acc) ==
    IF x > Len(row) THEN acc
    ELSE LET next == UpdateStats(acc, row[x])
         IN IF next.count > acc.count THEN RowStats(row, x + 1, next) ELSE acc

\* the outer loop over the rows y..end
RECURSIVE GridStats(_, _, _)
GridStats(grid, y, acc) ==
    IF y > Len(grid) THEN acc
    ELSE LET next == RowStats(grid[y], 1, acc)
         IN IF next.count >= acc.count THEN GridStats(grid, y + 1, next) ELSE acc

\* (a / b).toFixed(2): hundredths, or the text "NaN" / "Infinity".  The sign
\* of a quotient by zero is the numerator's (a negative zero is not modelled).
QuotientToFixed2(a, b) ==
    IF ~IsNum(a) \/ ~IsNum(b) THEN NaN
    ELSE IF b.v = 0 THEN
        (IF a.v = 0 THEN NaN ELSE IF a.v > 0 THEN Infinity ELSE NegInfinity)
    ELSE Num(RoundDivAway(100 * a.v, b.v))

\* Math.round(total / count)
RoundedAverage(total, count) ==
    IF ~IsNum(total) THEN NaN ELSE Num(RoundDiv(total.v, count))

CalculatePointByPoint(p) ==
    LET g == Geometry(p)
        grid == IlluminanceGrid(p, g)
        loop == GridStats(grid, 1, StartStats)
        minIlluminance == loop.min
        maxIlluminance == loop.max
        totalIlluminance == loop.total
        avgIlluminance == RoundedAverage(totalIlluminance, g.xPoints * g.yPoints)
    IN [ grid |-> grid,
         average |-> avgIlluminance,
         min |-> minIlluminance,
         max |-> maxIlluminance,
         uniformity |-> QuotientToFixed2(minIlluminance, avgIlluminance),
         dimensions |-> [ xPoints |-> g.xPoints, yPoints |-> g.yPoints,
                          gridSpacingM |-> g.gridSpacingM,
                          lengthM |-> g.lengthM, widthM |-> g.widthM ] ]

(***************************************************************************)
(* calculateUniformity (calculations/uniformity.js)                        *)
(***************************************************************************)
\* a / b of two numbers, kept as the exact fraction
JsQuotient(a, b) ==
    IF ~IsNum(a) \/ ~IsNum(b) THEN NaN
    ELSE IF b.v = 0 THEN
        (IF a.v = 0 THEN NaN ELSE IF a.v > 0 THEN Infinity ELSE NegInfinity)
    ELSE [k |-> "frac", n |-> a.v * Sign(b.v), d |-> Abs(b.v)]

CalculateUniformity(illuminanceGrid) ==
    LET loop == GridStats(illuminanceGrid, 1, StartStats)
        min == loop.min
        max == loop.max
        total == loop.total
        count == loop.count
    IN [ min |-> min,
         max |-> max,
         avg |-> JsQuotient(total, Num(count)),
         \* min / (total / count)
         minToAvg |-> IF ~IsNum(min) \/ ~IsNum(total) \/ count = 0 THEN NaN
                      ELSE JsQuotient(Num(min.v * count), total),
         minToMax |-> JsQuotient(min, max) ]

(***************************************************************************)
(* The requests the grid calculation is run on (lengths in tenths).        *)
(***************************************************************************)
Units == {"m", "ft"}

Requests ==
    { [ room |-> [ length |-> l, lengthUnit |-> lu, width |-> w, widthUnit |-> wu,
                   height |-> 30, heightUnit |-> "m" ],
        workplane |-> [height |-> 8, heightUnit |-> "m"],
        reflectances |-> [ceiling |-> 70, walls |-> 50, floor |-> 20],
        luminaires |-> [rows |-> r, columns |-> c, suspensionHeight |-> s, flux |-> f],
        calculation |-> [gridSpacing |-> sp] ] :
      l \in {40, 100}, lu \in Units, w \in {40, 100}, wu \in Units,
      r \in 0..MaxLum, c \in 0..MaxLum, s \in {0, 25}, f \in {50, 5000},
      sp \in {25, 50} }
    \cup
    \* the 10 m x 8 m room with 3 x 3 luminaires of 5000 lm at 0.5 m spacing
    { [ room |-> [ length |-> 100, lengthUnit |-> "m", width |-> 80, widthUnit |-> "m",
                   height |-> 30, heightUnit |-> "m" ],
        workplane |-> [height |-> 8, heightUnit |-> "m"],
        reflectances |-> [ceiling |-> 70, walls |-> 50, floor |-> 20],
        luminaires |-> [rows |-> 3, columns |-> 3, suspensionHeight |-> 0, flux |-> 5000],
        calculation |-> [gridSpacing |-> 5] ] }


InitGrid ==
    /\ gpc = "ready"
    /\ params \in Requests
    /\ results = NoResults
    /\ stats = NoStats
    \* the other parts of the program are not in use
    /\ lines = <<>> /\ input = [tilt |-> "NONE"] /\ ppc = "idle" /\ lineIndex = 0
    /\ header = NoHeader /\ tilt = NoTilt /\ photometric = NoData
    /\ dataset = NoDataset /\ query = <<>> /\ intensity = NoIntensity
    /\ cupc = "idle" /\ roomConfig = NoRoomConfig /\ cuFn = "" /\ cu = 0
    /\ glare = NoGlare /\ sim = NoSim
    /\ par = NoPar /\ app = NoApp /\ store = NoStore

PointByPoint ==
    /\ gpc = "ready"
    /\ results' = CalculatePointByPoint(params)
    /\ gpc' = "calculated"
    /\ UNCHANGED <<params, stats, parseVars, interpVars, cuVars, restVars>>

UniformityStats ==
    /\ gpc = "calculated"
    /\ stats' = CalculateUniformity(results.grid)
    /\ gpc' = "analysed"
    /\ UNCHANGED <<params, results, parseVars, interpVars, cuVars, restVars>>

(***************************************************************************)
(* Coefficient of utilization.  A coefficient, a reflectance factor and    *)
(* the value of Math.exp are in 1/10000; a reflectance is a fraction given *)
(* in hundredths; a room cavity ratio and a room index are in hundredths;  *)
(* room lengths are in tenths of a metre.                                  *)
(***************************************************************************)
\* a * b of two values in 1/10000
Mul4(a, b) == RoundDiv(a * b, 10000)

\* the Taylor sum of e^(-t) for 0 <= t < 1 (t in 1/10000), term by term
RECURSIVE ExpNegSeries(_, _, _, _)
ExpNegSeries(t, k, term, acc) ==
    IF k > 9 \/ term = 0 THEN acc
    ELSE LET next == -RoundDivAway(term * t, k * 10000)
         IN ExpNegSeries(t, k + 1, next, acc + next)

\* Math.exp(-x) for x >= 0 in 1/10000: e^(-1) is taken once per whole unit
RECURSIVE ExpNeg(_)
ExpNeg(x) ==
    IF x >= 10000 THEN Mul4(3679, ExpNeg(x - 10000))
    ELSE ExpNegSeries(x, 1, 10000, 10000)

\* RCR = 5 * h * (L + W) / (L * W), in hundredths
CalculateRoomCavityRatio(rc) ==
    RoundDiv(500 * (rc.height - rc.workPlaneHeight) * (rc.length + rc.width),
             rc.length * rc.width)

\* coefficient-of-utilization methods module
CalculateDirectCU(rcr, pc, pw, pf) ==
    LET ceilingFactor == 8000 + 20 * pc
        wallFactor == 7000 + 30 * pw
        floorFactor == 9000 + 10 * pf
        rcrFactor == ExpNeg(25 * rcr)
    IN Mul4(Mul4(Mul4(Mul4(9500, ceilingFactor), wallFactor), floorFactor), rcrFactor)

CalculateIndirectCU(rcr, pc, pw, pf) ==
    LET ceilingFactor == 6000 + 40 * pc
        wallFactor == 7000 + 30 * pw
        floorFactor == 9500 + 5 * pf
        rcrFactor == ExpNeg(15 * rcr)
    IN Mul4(Mul4(Mul4(Mul4(7500, ceilingFactor), wallFactor), floorFactor), rcrFactor)

LuminaireTypes ==
    {"", "downlight", "highbay", "floodlight", "cove", "uplighting",
     "pendant", "wallwash", "track", "panel"}

\* "" stands for a luminaire without a type
GetLuminaireDistributionType(type) ==
    IF type = "" THEN "direct"
    ELSE IF type \in {"downlight", "highbay", "floodlight"} THEN "direct"
    ELSE IF type \in {"cove", "uplighting"} THEN "indirect"
    ELSE IF type = "pendant" THEN "direct-indirect"
    ELSE IF type \in {"wallwash", "track"} THEN "semi-direct"
    ELSE "direct"

\* the blend with the weights of the two base values exchanged
BlendedCUSwapped(distributionType, rcr, pc, pw, pf) ==
    LET direct == CalculateDirectCU(rcr, pc, pw, pf)
        indirect == CalculateIndirectCU(rcr, pc, pw, pf)
    IN IF distributionType = "direct" THEN direct
       ELSE IF distributionType = "indirect" THEN indirect
       ELSE IF distributionType = "semi-direct" THEN
           RoundDiv(3 * direct, 10) + RoundDiv(7 * indirect, 10)
       ELSE IF distributionType = "semi-indirect" THEN
           RoundDiv(7 * direct, 10) + RoundDiv(3 * indirect, 10)
       ELSE IF distributionType = "direct-indirect" THEN
           RoundDiv(5 * direct, 10) + RoundDiv(5 * indirect, 10)
       ELSE direct

\* the coefficient before the final clamp, by distribution type
BlendedCU(distributionType, rcr, pc, pw, pf) ==
    LET direct == CalculateDirectCU(rcr, pc, pw, pf)
        indirect == CalculateIndirectCU(rcr, pc, pw, pf)
    IN IF distributionType = "direct" THEN direct
       ELSE IF distributionType = "indirect" THEN indirect
       ELSE IF distributionType = "semi-direct" THEN
           RoundDiv(7 * direct, 10) + RoundDiv(3 * indirect, 10)
       ELSE IF distributionType = "semi-indirect" THEN
           RoundDiv(3 * direct, 10) + RoundDiv(7 * indirect, 10)
       ELSE IF distributionType = "direct-indirect" THEN
           RoundDiv(5 * direct, 10) + RoundDiv(5 * indirect, 10)
       ELSE direct

\* Math.max(0, Math.min(1, cu))
CalculateCoefficientOfUtilization(rc) ==
    LET r == rc.reflectances
        cuRaw == BlendedCU(GetLuminaireDistributionType(rc.luminaireType),
                           CalculateRoomCavityRatio(rc), r.ceiling, r.walls, r.floor)
    IN Max2(0, Min2(10000, cuRaw))

\* average-illuminance module: Math.max(0.2, Math.min(0.95, ...))
AverageMethodCU(rc) ==
    LET r == rc.reflectances
        rcr == CalculateRoomCavityRatio(rc)
    IN Max2(2000, Min2(9500,
          Mul4(Mul4(Mul4(Mul4(9000, ExpNeg(20 * rcr)), 7000 + 30 * r.ceiling),
                    7000 + 30 * r.walls), 8000 + 20 * r.floor)))

\* calculations/index.js: roomArea / (mountingHeight * (length + width)),
\* mountingHeight = heightM - 0.85; in hundredths
RoomIndex(rc) ==
    RoundDivAway(1000 * rc.length * rc.width,
                 (10 * rc.height - 85) * (rc.length + rc.width))

\* calculations/index.js calculateCU
CalculateCU(roomIndex, ceilingRefl, wallRefl) ==
    LET baseCU == IF roomIndex < 100 THEN Mul4(4000, 8000)
                  ELSE IF roomIndex > 300 THEN Mul4(4000, 12000)
                  ELSE Mul4(4000, 8000 + (roomIndex - 100) * 13)
        reflFactor == 70 * ceilingRefl + 30 * wallRefl
        adjustedCU == Mul4(baseCU, 7000 + RoundDiv(3 * reflFactor, 10))
    IN Min2(Max2(adjustedCU, 1000), 9500)

\* the room cavity ratio as the other modules compute it, in hundredths
\* advance-iesna.js calculateRoomCavityRatio
AdvancedRoomCavityRatio(room) ==
    LET length == room.length
        width == room.width
        height == room.height - room.workPlaneHeight
    IN RoundDiv(500 * height * (length + width), length * width)

\* average-illuminance module calculateRoomCavityRatio
AverageMethodRoomCavityRatio(rc) ==
    LET length == rc.length
        width == rc.width
        height == rc.height - rc.workPlaneHeight
    IN RoundDiv(500 * height * (length + width), length * width)

\* average-illuminance module calculateZonalCavityCoefficients, with flush
\* fixtures (hcc = 0)
CalculateZonalCavityCoefficients(rc) ==
    LET length == rc.length
        width == rc.width
        hrc == rc.height - rc.workPlaneHeight
        hcc == 0
        hfc == rc.workPlaneHeight
    IN [ rcr |-> RoundDiv(500 * hrc * (length + width), length * width),
         ccr |-> RoundDiv(500 * hcc * (length + width), length * width),
         fcr |-> RoundDiv(500 * hfc * (length + width), length * width) ]

\* a perimeter that leaves out the factor two
RoomPerimeterHalf(lengthM, widthM) == lengthM + widthM

\* calculations/index.js calculateAverageIlluminance
RoomPerimeter(lengthM, widthM) == 2 * (lengthM + widthM)

\* (2.5 * cavityHeight * roomPerimeter) / roomArea for a room in metres
PerimeterRoomCavityRatio(rc) ==
    LET roomArea == rc.length * rc.width
        roomPerimeter == RoomPerimeter(rc.length, rc.width)
        cavityHeight == rc.height - rc.workPlaneHeight
    IN RoundDiv(250 * cavityHeight * roomPerimeter, roomArea)

RoomConfigs ==
    [ length : {20, 100}, width : {20, 100}, height : {30, 100},
      workPlaneHeight : {8},
      reflectances : [ceiling : {0, 70, 100}, walls : {0, 50, 100}, floor : {20}],
      luminaireType : LuminaireTypes ]


InitCU ==
    /\ cupc = "ready"
    /\ roomConfig \in RoomConfigs
    /\ cuFn = ""
    /\ cu = 0
    /\ glare = NoGlare /\ sim = NoSim
    /\ par = NoPar /\ app = NoApp /\ store = NoStore
    \* the other parts of the program are not in use
    /\ lines = <<>> /\ input = [tilt |-> "NONE"] /\ ppc = "idle" /\ lineIndex = 0
    /\ header = NoHeader /\ tilt = NoTilt /\ photometric = NoData
    /\ dataset = NoDataset /\ query = <<>> /\ intensity = NoIntensity
    /\ gpc = "idle" /\ params = NoParams /\ results = NoResults /\ stats = NoStats

CUByDistribution ==
    /\ cupc = "ready"
    /\ cu' = CalculateCoefficientOfUtilization(roomConfig)
    /\ cuFn' = "calculateCoefficientOfUtilization"
    /\ cupc' = "done"
    /\ UNCHANGED <<roomConfig, parseVars, interpVars, gridVars, restVars>>

CUAverageMethod ==
    /\ cupc = "ready"
    /\ cu' = AverageMethodCU(roomConfig)
    /\ cuFn' = "averageIlluminance.calculateCoefficientOfUtilization"
    /\ cupc' = "done"
    /\ UNCHANGED <<roomConfig, parseVars, interpVars, gridVars, restVars>>

CURoomIndex ==
    /\ cupc = "ready"
    /\ cu' = CalculateCU(RoomIndex(roomConfig), roomConfig.reflectances.ceiling,
                         roomConfig.reflectances.walls)
    /\ cuFn' = "calculateCU"
    /\ cupc' = "done"
    /\ UNCHANGED <<roomConfig, parseVars, interpVars, gridVars, restVars>>

\* every room-cavity-ratio computation of the source, run on the room
CURoomCavityRatios ==
    /\ cupc = "ready"
    /\ cu' = [ distribution |-> CalculateRoomCavityRatio(roomConfig),
               averageMethod |-> AverageMethodRoomCavityRatio(roomConfig),
               zonal |-> CalculateZonalCavityCoefficients(roomConfig).rcr,
               advanced |-> AdvancedRoomCavityRatio(roomConfig),
               perimeter |-> PerimeterRoomCavityRatio(roomConfig) ]
    /\ cuFn' = "calculateRoomCavityRatio"
    /\ cupc' = "ratios"
    /\ UNCHANGED <<roomConfig, parseVars, interpVars, gridVars, restVars>>

(***************************************************************************)
(* Specifications                                                          *)
(***************************************************************************)
NextParse == ParseHeader \/ ParseTilt \/ ParsePhotometricData

NextInterp == QueryIntensity

NextGrid == PointByPoint \/ UniformityStats

NextCU == CUByDistribution \/ CUAverageMethod \/ CURoomIndex \/ CURoomCavityRatios

SpecParse == InitParse /\ [][NextParse]_vars

SpecInterp == InitInterp /\ [][NextInterp]_vars

SpecGrid == InitGrid /\ [][NextGrid]_vars

SpecCU == InitCU /\ [][NextCU]_vars

(***************************************************************************)
(* Properties of IESParser.parse                                           *)
(***************************************************************************)
\* the file at hand has its tilt line and no tilt table
PlainTilt == input.tilt \in {"NONE", "FILE"}

ExpectedVerticalAngles == [j \in 1..input.nV |-> Num(VAngleOf(j))]
ExpectedHorizontalAngles == [i \in 1..input.nH |-> Num(HAngleOf(i, input.hFirst))]
ExpectedCandela == [i \in 1..input.nH |-> [j \in 1..input.nV |-> Num(CandelaOf(i, j))]]

\* C1: for a file declaring N horizontal and M vertical angles the parsed
\* candela matrix has N rows of M values each, in file order, however the
\* candela tokens are wrapped over lines.
C1_CandelaMatrixExact ==
    (ppc = "done" /\ PlainTilt) => photometric.candela = ExpectedCandela

\* C2: the vertical-angle and horizontal-angle arrays are each exactly the
\* next K numeric tokens of the file, in order, none duplicated and none
\* dropped, for every way of wrapping them over lines.
C2_AngleArraysExact ==
    (ppc = "done" /\ PlainTilt) =>
        /\ photometric.verticalAngles = ExpectedVerticalAngles
        /\ photometric.horizontalAngles = ExpectedHorizontalAngles

(***************************************************************************)
(* Properties of IESParser.getIntensityAtAngle                             *)
(***************************************************************************)
MaxTurns == 2    \* whole turns added to or taken from a horizontal angle

\* C3: a query at a recorded vertex (verticalAngles[j], horizontalAngles[i])
\* of a dataset with ascending angle arrays returns exactly candela[i][j].
C3_VertexExact ==
    query # <<>> =>
        \A j \in 1..Len(dataset.verticalAngles) :
            \A i \in 1..Len(dataset.horizontalAngles) :
                query = <<dataset.verticalAngles[j], dataset.horizontalAngles[i]>>
                    => intensity.n = dataset.candela[i][j] * intensity.d

\* a query at the last vertex of a 2 x 2 dataset whose other values differ
C3_Witness ==
    /\ query # <<>>
    /\ Len(dataset.verticalAngles) = 2 /\ Len(dataset.horizontalAngles) = 2
    /\ query = <<dataset.verticalAngles[2], dataset.horizontalAngles[2]>>
    /\ dataset.candela[2][2] = MaxCd
    /\ dataset.candela[1][1] = 0 /\ dataset.candela[1][2] = 0 /\ dataset.candela[2][1] = 0
    /\ intensity.n = MaxCd * intensity.d

\* C4: the result for (v, h + 360 k) equals the result for (v, h) for every
\* integer k; a query at 370 degrees behaves as a query at 10 degrees.
C4_WrapInvariant ==
    query # <<>> =>
        \A k \in (-MaxTurns)..MaxTurns :
            GetIntensityAtAngle(dataset, query[1], query[2] + 360 * k) = intensity

\* a query at 370 degrees that interpolates between two different values
C4_Witness ==
    /\ query # <<>>
    /\ query[2] = 370
    /\ dataset.horizontalAngles = <<0, 90>>
    /\ intensity.n > 0 /\ intensity.n < MaxCd * intensity.d
    /\ intensity = GetIntensityAtAngle(dataset, query[1], 10)

\* C5: for a dataset whose candela values are all >= 0 the returned
\* intensity is a finite number >= 0 for every query, also one below the
\* first or above the last recorded angle.
C5_IntensityNonNegative ==
    query # <<>> => (intensity.d > 0 /\ intensity.n >= 0)

(***************************************************************************)
(* Properties of calculatePointByPoint                                     *)
(***************************************************************************)
Calculated == gpc \in {"calculated", "analysed"}

\* floor(a / b) for a >= 0 and b > 0, by its defining inequalities
FloorOf(a, b) == CHOOSE n \in 0..a : n * b <= a /\ a < (n + 1) * b

MetresOf(value, unit) == IF unit = "ft" THEN 3048 * value ELSE 10000 * value

\* C6: the grid has floor(width/spacing)+1 rows of floor(length/spacing)+1
\* cells each, and dimensions.xPoints / yPoints are those counts.
C6_GridDimensions ==
    Calculated =>
        LET xs == FloorOf(MetresOf(params.room.length, params.room.lengthUnit),
                          10000 * params.calculation.gridSpacing) + 1
            ys == FloorOf(MetresOf(params.room.width, params.room.widthUnit),
                          10000 * params.calculation.gridSpacing) + 1
        IN /\ Len(results.grid) = ys
           /\ \A y \in 1..Len(results.grid) : Len(results.grid[y]) = xs
           /\ results.dimensions.xPoints = xs
           /\ results.dimensions.yPoints = ys

\* 10 m x 8 m at 0.5 m: 21 x 17 = 357 points
C6_Witness ==
    /\ Calculated
    /\ params.room.length = 100 /\ params.room.width = 80
    /\ params.calculation.gridSpacing = 5
    /\ results.dimensions.xPoints = 21 /\ results.dimensions.yPoints = 17
    /\ GridStats(results.grid, 1, StartStats).count = 357

\* C7: for every grid calculatePointByPoint produces, and for the statistics
\* calculateUniformity derives from it, min <= every cell <= max and
\* min <= average <= max.
C7_MinCellMaxOrdered ==
    /\ Calculated =>
        /\ IsNum(results.min) /\ IsNum(results.max) /\ IsNum(results.average)
        /\ \A y \in 1..Len(results.grid) : \A x \in 1..Len(results.grid[y]) :
              /\ IsNum(results.grid[y][x])
              /\ results.min.v <= results.grid[y][x].v
              /\ results.grid[y][x].v <= results.max.v
        /\ results.min.v <= results.average.v
        /\ results.average.v <= results.max.v
    /\ gpc = "analysed" =>
        /\ IsNum(stats.min) /\ IsNum(stats.max) /\ stats.avg.k = "frac"
        /\ \A y \in 1..Len(results.grid) : \A x \in 1..Len(results.grid[y]) :
              /\ stats.min.v <= results.grid[y][x].v
              /\ results.grid[y][x].v <= stats.max.v
        /\ stats.min.v * stats.avg.d <= stats.avg.n
        /\ stats.avg.n <= stats.max.v * stats.avg.d

\* the sum of the cells, when every cell is a number
CellSum == GridStats(results.grid, 1, StartStats).total

\* C8: whenever the average of the grid (sum of cells / point count) is > 0,
\* the uniformity reported by calculatePointByPoint is a number in [0,1].
C8_UniformityInUnitRange ==
    (Calculated /\ IsNum(CellSum) /\ CellSum.v > 0) =>
        /\ IsNum(results.uniformity)
        /\ results.uniformity.v >= 0
        /\ results.uniformity.v <= 100

\* C9: every cell of the grid is a whole-number lux value >= 0; a point
\* whose accumulated illuminance is negative is clamped to 0.  (Stated for
\* grids with more than one point along each axis.)
C9_CellsNonNegative ==
    (Calculated /\ results.dimensions.xPoints > 1 /\ results.dimensions.yPoints > 1) =>
        \A y \in 1..Len(results.grid) : \A x \in 1..Len(results.grid[y]) :
            IsNum(results.grid[y][x]) /\ results.grid[y][x].v >= 0

(***************************************************************************)
(* Properties of the coefficient-of-utilization functions                  *)
(***************************************************************************)
\* C10: every function that returns a coefficient of utilization returns a
\* value in [0.1, 0.95], for every room and reflectance and for every
\* distribution type.
C10_CUClamped ==
    cupc = "done" => (cu >= 1000 /\ cu <= 9500)

(***************************************************************************)
(* calculatePointByPoint on requests of any sign: a grid spacing or a room *)
(* dimension that is zero or negative, and a grid spacing tagged with a    *)
(* unit as the form delivers it.  The function tests none of them, so the  *)
(* point counts are whatever Math.floor(extent / spacing) + 1 is.          *)
(***************************************************************************)
\* Math.floor(extent / spacing) + 1 for operands of any sign
PointCount(extentM, spacingM) ==
    IF spacingM = 0 THEN
        (IF extentM > 0 THEN Infinity ELSE IF extentM < 0 THEN NegInfinity ELSE NaN)
    ELSE Num((extentM \div spacingM) + 1)

\* for (i = 0; i < points; i++) runs its body at least once
LoopRuns(points) == points = Infinity \/ (IsNum(points) /\ points.v >= 1)

\* xPoints * yPoints
PointProduct(x, y) ==
    IF x = NaN \/ y = NaN THEN NaN
    ELSE IF IsNum(x) /\ IsNum(y) THEN Num(x.v * y.v)
    ELSE IF x.v = 0 \/ y.v = 0 THEN NaN
    ELSE IF Sign(x.v) * Sign(y.v) > 0 THEN Infinity ELSE NegInfinity

\* what the function returns when no cell is computed: the statistics keep
\* their initial values, and the average is Math.round(0 / (xPoints * yPoints))
EmptyResult(g, x, y) ==
    LET product == PointProduct(x, y)
        avgIsNaN == product = NaN \/ (IsNum(product) /\ product.v = 0)
    IN [ grid |-> IF LoopRuns(y) THEN [r \in 1..y.v |-> <<>>] ELSE <<>>,
         average |-> IF avgIsNaN THEN NaN ELSE Num(0),
         min |-> NumberMaxValue,
         max |-> Num(0),
         \* Number.MAX_VALUE / (0 or -0)
         uniformity |-> IF avgIsNaN THEN NaN
                        ELSE IF product.v < 0 THEN NegInfinity ELSE Infinity,
         dimensions |-> [ xPoints |-> x, yPoints |-> y,
                          gridSpacingM |-> g.gridSpacingM,
                          lengthM |-> g.lengthM, widthM |-> g.widthM ] ]

\* the call as a whole: returned is FALSE when a loop never ends
PointByPointOutcome(p) ==
    LET g == [ lengthM |-> ToMetres(p.room.length, p.room.lengthUnit),
               widthM |-> ToMetres(p.room.width, p.room.widthUnit),
               gridSpacingM |-> p.calculation.gridSpacing * 10000 ]
        x == PointCount(g.lengthM, g.gridSpacingM)
        y == PointCount(g.widthM, g.gridSpacingM)
    IN IF y = Infinity \/ (LoopRuns(y) /\ x = Infinity)
           THEN [returned |-> FALSE, value |-> NoResults]
       ELSE IF LoopRuns(x) /\ LoopRuns(y)
           THEN [returned |-> TRUE, value |-> CalculatePointByPoint(p)]
       ELSE [returned |-> TRUE, value |-> EmptyResult(g, x, y)]

AnyRequests ==
    { [ room |-> [ length |-> l, lengthUnit |-> lu, width |-> w, widthUnit |-> wu,
                   height |-> 30, heightUnit |-> "m" ],
        workplane |-> [height |-> 8, heightUnit |-> "m"],
        reflectances |-> [ceiling |-> 70, walls |-> 50, floor |-> 20],
        luminaires |-> [rows |-> r, columns |-> c, suspensionHeight |-> 0, flux |-> 5000],
        calculation |-> [gridSpacing |-> sp, gridSpacingUnit |-> su] ] :
      l \in {-40, 0, 40}, lu \in Units, w \in {-40, 0, 40}, wu \in Units,
      r \in 0..MaxLum, c \in 0..MaxLum, sp \in {-25, 0, 25}, su \in Units }

InitAnyRequest ==
    /\ gpc = "ready"
    /\ params \in AnyRequests
    /\ results = NoResults
    /\ stats = NoStats
    /\ lines = <<>> /\ input = [tilt |-> "NONE"] /\ ppc = "idle" /\ lineIndex = 0
    /\ header = NoHeader /\ tilt = NoTilt /\ photometric = NoData
    /\ dataset = NoDataset /\ query = <<>> /\ intensity = NoIntensity
    /\ cupc = "idle" /\ roomConfig = NoRoomConfig /\ cuFn = "" /\ cu = 0
    /\ glare = NoGlare /\ sim = NoSim
    /\ par = NoPar /\ app = NoApp /\ store = NoStore

\* gpc is "hung" when the call never returns; the code has no path that
\* rejects a request
PointByPointAny ==
    /\ gpc = "ready"
    /\ LET o == PointByPointOutcome(params)
       IN /\ results' = o.value
          /\ gpc' = IF o.returned THEN "calculated" ELSE "hung"
    /\ UNCHANGED <<params, stats, parseVars, interpVars, cuVars, restVars>>

NextAnyRequest == PointByPointAny

SpecAnyRequest == InitAnyRequest /\ [][NextAnyRequest]_vars

\* a request the specification has rejected
InvalidRequest ==
    \/ params.calculation.gridSpacing <= 0
    \/ params.room.length <= 0
    \/ params.room.width <= 0

\* C11: a request with zero or negative grid spacing, or with a non-positive
\* room dimension, is rejected before any cell is computed: the call never
\* returns a result for it and never fails to terminate.
C11_InvalidRejected ==
    InvalidRequest => gpc \notin {"calculated", "hung"}

(***************************************************************************)
(* Properties of the metrics that divide by a statistic of the grid        *)
(***************************************************************************)
\* a metric is reported as NaN, as an infinity or as a computed number
ComputedOrNotANumber(metric) == metric.k \in {"nan", "inf", "num", "frac"}

\* C12: when the grid's average is 0 (all cells 0, as with no luminaire) or
\* its max is 0, the ratios that divide by it (min/avg of
\* calculatePointByPoint, min/avg and min/max of calculateUniformity) are a
\* distinguished undefined result, never NaN, an infinity or a number.
C12_ZeroDenominatorUndefined ==
    /\ (Calculated /\ results.average = Num(0)) =>
          ~ComputedOrNotANumber(results.uniformity)
    /\ (gpc = "analysed" /\ stats.avg.k = "frac" /\ stats.avg.n = 0) =>
          ~ComputedOrNotANumber(stats.minToAvg)
    /\ (gpc = "analysed" /\ stats.max = Num(0)) =>
          ~ComputedOrNotANumber(stats.minToMax)

\* C13: with a luminaire count of zero (rows = 0 or columns = 0)
\* calculatePointByPoint returns a grid of the normal dimensions in which
\* every cell is 0.
C13_NoLuminaireGridOfZeros ==
    (Calculated /\ (params.luminaires.rows = 0 \/ params.luminaires.columns = 0)) =>
        LET xs == FloorOf(MetresOf(params.room.length, params.room.lengthUnit),
                          10000 * params.calculation.gridSpacing) + 1
            ys == FloorOf(MetresOf(params.room.width, params.room.widthUnit),
                          10000 * params.calculation.gridSpacing) + 1
        IN /\ Len(results.grid) = ys
           /\ \A y \in 1..ys :
                 /\ Len(results.grid[y]) = xs
                 /\ \A x \in 1..xs : results.grid[y][x] = Num(0)

\* no luminaire rows, two columns, and a grid with a single point along x
C13_Witness ==
    /\ Calculated
    /\ params.luminaires.rows = 0 /\ params.luminaires.columns = 2
    /\ results.dimensions.xPoints = 1 /\ results.dimensions.yPoints = 5
    /\ Len(results.grid) = 5
    /\ \A y \in 1..5 : results.grid[y] = <<Num(0)>>

(***************************************************************************)
(* IESParser.parse on damaged files: one numeric token replaced by text    *)
(* that is no number, or the last lines of the file missing.               *)
(***************************************************************************)
MaxCut == 2      \* lines missing from the end of the file 0..MaxCut

\* the token at position i replaced by tok when the damage is there
Spoil(toks, i, tok, there) == IF there THEN [toks EXCEPT ![i] = tok] ELSE toks

\* bad names the record that holds the bad token: its second field in the
\* lamp line (lumens per lamp), the first value elsewhere
DamagedLines(in) ==
    LET whole ==
            HeaderLines \o TiltLines(in.tilt)
            \o << Spoil(LampLine(in.nV, in.nH), 2, in.token, in.bad = "lamp"),
                  Spoil(BallastLine, 1, in.token, in.bad = "ballast") >>
            \o Chunk(Spoil(VTokens(in.nV), 1, in.token, in.bad = "vertical"), in.wrapA)
            \o Chunk(Spoil(HTokens(in.nH, in.hFirst), 1, in.token, in.bad = "horizontal"),
                     in.wrapA)
            \o Concat([i \in 1..in.nH |->
                         Chunk(Spoil(CTokens(i, in.nV), 1, in.token,
                                     in.bad = "candela" /\ i = 1), in.wrapC)])
    IN SubSeq(whole, 1, Len(whole) - in.cut)

\* a file has a bad token, or lines missing, or neither
DamagedInputs ==
    { in \in [ nV : 1..MaxV, nH : 1..MaxH, hFirst : {0, 1},
               wrapA : 1..MaxWrap, wrapC : 1..MaxWrap, tilt : {"NONE", "MISSING"},
               bad : {"none", "lamp", "ballast", "vertical", "horizontal", "candela"},
               token : {<<"x">>, <<"4", "x">>},
               cut : 0..MaxCut ] :
        /\ in.bad = "none" \/ in.cut = 0
        /\ in.bad # "none" => in.tilt = "NONE"
        /\ in.bad = "none" => in.token = <<"x">> }

InitDamaged ==
    /\ input \in DamagedInputs
    /\ lines = DamagedLines(input)
    /\ ppc = "header"
    /\ lineIndex = 0
    /\ header = NoHeader
    /\ tilt = NoTilt
    /\ photometric = NoData
    /\ dataset = NoDataset /\ query = <<>> /\ intensity = NoIntensity
    /\ gpc = "idle" /\ params = NoParams /\ results = NoResults /\ stats = NoStats
    /\ cupc = "idle" /\ roomConfig = NoRoomConfig /\ cuFn = "" /\ cu = 0
    /\ glare = NoGlare /\ sim = NoSim
    /\ par = NoPar /\ app = NoApp /\ store = NoStore

SpecDamaged == InitDamaged /\ [][NextParse]_vars

\* C14: a malformed numeric token in the lamp record, the ballast record,
\* an angle array or the candela matrix makes parse fail: no dataset is
\* returned for such a file.
C14_MalformedTokenFails ==
    input.bad # "none" => ppc # "done"

\* C15: when the text ends before the tilt line or before the declared
\* number of vertical angles, horizontal angles or candela values has been
\* read, parse reports an error and returns no dataset.
C15_TruncatedFileFails ==
    (input.tilt = "MISSING" \/ input.cut > 0) => ppc # "done"

(***************************************************************************)
(* Properties of the unit conversion of calculatePointByPoint              *)
(***************************************************************************)
\* C16: every linear measurement of the request tagged 'ft' is converted to
\* metres with the factor 0.3048 before the grid calculation uses it, and
\* one tagged 'm' is used unchanged: the room length, the room width and
\* the grid spacing the result reports, and the point counts derived from
\* them, are those of the converted values.
C16_FeetConverted ==
    (gpc = "calculated" /\ ~InvalidRequest) =>
        LET lengthM == MetresOf(params.room.length, params.room.lengthUnit)
            widthM == MetresOf(params.room.width, params.room.widthUnit)
            spacingM == MetresOf(params.calculation.gridSpacing,
                                 params.calculation.gridSpacingUnit)
        IN /\ results.dimensions.lengthM = lengthM
           /\ results.dimensions.widthM = widthM
           /\ results.dimensions.gridSpacingM = spacingM
           /\ results.dimensions.xPoints = FloorOf(lengthM, spacingM) + 1
           /\ results.dimensions.yPoints = FloorOf(widthM, spacingM) + 1

(***************************************************************************)
(* calculateVCP (calculations/advance-iesna.js).                           *)
(*                                                                         *)
(* The module reads two identifiers it neither declares nor imports:       *)
(* getIntensityInDirection (line 85) and, inside                           *)
(* calculateDiscomfortGlareRating, observerPosition (lines 167-169), which *)
(* is not among that function's parameters.  Such an identifier is a       *)
(* global of the page when there is one and raises a ReferenceError when   *)
(* there is none; a call carries both bindings.  The powers and the        *)
(* logarithm of the glare rating are not computed: with fixtures the       *)
(* rating is any of DGRValues.  A probability is in millionths of 1%.      *)
(***************************************************************************)
MaxFixtures == 2     \* luminaire.fixtures holds 0..MaxFixtures fixtures

ObserverPositions == {"desk", "door", "window"}

DGRValues == {-40, 10, 20, 30, 45, 60, 120}

\* Math.max(0, Math.min(100, 100 - 4.2 DGR + 0.0883 DGR^2 - 0.000689 DGR^3));
\* a rating of -Infinity (log10 of an empty sum) gives +Infinity, clamped to 100
VCPOfRating(dgr) ==
    IF dgr = NegInfinity THEN 100000000
    ELSE Max2(0, Min2(100000000,
              100000000 - 4200000 * dgr.v + 88300 * dgr.v * dgr.v
              - 689 * dgr.v * dgr.v * dgr.v))

\* the outcomes of calculateVCP(luminaire, roomConfig, observerPosition):
\* eye is the observer position the glare-factor loop read
VCPOutcomes(call) ==
    IF call.fixtures >= 1 /\ ~call.intensityFn
        THEN {[error |-> "ReferenceError: getIntensityInDirection", vcp |-> 0, eye |-> "none"]}
    ELSE IF call.fixtures >= 1 /\ call.globalObserver = "absent"
        THEN {[error |-> "ReferenceError: observerPosition", vcp |-> 0, eye |-> "none"]}
    ELSE IF call.fixtures >= 1
        THEN { [error |-> "", vcp |-> VCPOfRating(Num(d)), eye |-> call.globalObserver] :
                 d \in DGRValues }
    ELSE {[error |-> "", vcp |-> VCPOfRating(NegInfinity), eye |-> "none"]}

GlareCalls ==
    [ pc : {"ready"},
      fixtures : 0..MaxFixtures,
      observer : ObserverPositions,
      globalObserver : ObserverPositions \cup {"absent"},
      intensityFn : BOOLEAN,
      outcome : {[error |-> "", vcp |-> 0, eye |-> "none"]} ]

InitGlare ==
    /\ glare \in GlareCalls
    /\ sim = NoSim
    /\ par = NoPar /\ app = NoApp /\ store = NoStore
    /\ lines = <<>> /\ input = [tilt |-> "NONE"] /\ ppc = "idle" /\ lineIndex = 0
    /\ header = NoHeader /\ tilt = NoTilt /\ photometric = NoData
    /\ dataset = NoDataset /\ query = <<>> /\ intensity = NoIntensity
    /\ gpc = "idle" /\ params = NoParams /\ results = NoResults /\ stats = NoStats
    /\ cupc = "idle" /\ roomConfig = NoRoomConfig /\ cuFn = "" /\ cu = 0

CalculateVCP ==
    /\ glare.pc = "ready"
    /\ \E o \in VCPOutcomes(glare) :
          glare' = [glare EXCEPT !.pc = "done", !.outcome = o]
    /\ UNCHANGED <<parseVars, interpVars, gridVars, cuVars, sim, par, app, store>>

SpecGlare == InitGlare /\ [][CalculateVCP]_vars

\* C17: for every luminaire set, of one or more fixtures too, and every
\* explicitly passed observer position, calculateVCP returns a number in
\* [0,100]; it does not fail, and it reads no observer position other
\* than the one passed to it.
C17_VCPInRangeOfPassedObserver ==
    glare.pc = "done" =>
        /\ glare.outcome.error = ""
        /\ glare.outcome.vcp >= 0 /\ glare.outcome.vcp <= 100000000
        /\ glare.outcome.eye \in {"none", glare.observer}

(***************************************************************************)
(* The application's own calculatePointByPoint (the later revision of the  *)
(* main script defines it locally in place of the imported one).           *)
(* Positions are normalised to the room and given per mille; a cosine is   *)
(* in 1/10000; an illuminance before rounding is in hundredths of a lux.   *)
(* Math.random() * 20 - 10 is any of three noise values.                   *)
(***************************************************************************)
\* the Taylor sum of cos a (a per mille of a radian), term by term
RECURSIVE CosSeries(_, _, _, _)
CosSeries(a, k, term, acc) ==
    IF k > 12 \/ term = 0 THEN acc
    ELSE LET next == -RoundDivAway(RoundDivAway(term * a, 1000) * a,
                                   1000 * (2 * k - 1) * (2 * k))
         IN CosSeries(a, k + 1, next, acc + next)

\* Math.max(0, 500 * Math.cos(d * Math.PI * 0.8) / (1 + 5 * d * d)) for the
\* luminaire (lr, lc), NaN when a position is NaN
SimContribution(f, xPos, yPos, lr, lc) ==
    IF ~IsNum(xPos) \/ ~IsNum(yPos) THEN NaN
    ELSE LET dx == xPos.v - ((2 * lc + 1) * 1000) \div (2 * f.luminaires.columns)
             dy == yPos.v - ((2 * lr + 1) * 1000) \div (2 * f.luminaires.rows)
             d == ISqrt(dx * dx + dy * dy)
             cos == CosSeries(RoundDiv(d * 25133, 10000), 1, 10000, 10000)
         IN Num(Max2(0, RoundDivAway(5 * cos * 1000, 1000 + 5 * ((d * d) \div 1000))))

\* the two luminaire loops: k counts the luminaires done
RECURSIVE SimPointIlluminance(_, _, _, _, _)
SimPointIlluminance(f, xPos, yPos, k, acc) ==
    IF k >= f.luminaires.rows * f.luminaires.columns THEN acc
    ELSE SimPointIlluminance(f, xPos, yPos, k + 1,
            JsAdd(acc, SimContribution(f, xPos, yPos, k \div f.luminaires.columns,
                                       k % f.luminaires.columns)))

\* the whole call, for the noise Math.random delivers at each point
SimulatedPointByPoint(f, noise) ==
    LET lengthM == ToMetres(f.room.length, f.room.lengthUnit)
        widthM == ToMetres(f.room.width, f.room.widthUnit)
        gridSpacingM == ToMetres(f.calculation.gridSpacing, f.calculation.gridSpacingUnit)
        xPoints == GridPoints(lengthM, gridSpacingM)
        yPoints == GridPoints(widthM, gridSpacingM)
        cell(x, y) ==
            LET total == SimPointIlluminance(f, Coord(x, xPoints, 1000),
                                             Coord(y, yPoints, 1000), 0, Num(0))
            IN IF ~IsNum(total) THEN NaN
               ELSE Num(RoundDiv(total.v + noise[y + 1][x + 1], 100))
        grid == [y \in 1..yPoints |-> [x \in 1..xPoints |-> cell(x - 1, y - 1)]]
        loop == GridStats(grid, 1, StartStats)
        avgIlluminance == RoundedAverage(loop.total, xPoints * yPoints)
    IN [ grid |-> grid,
         dimensions |-> [ xPoints |-> xPoints, yPoints |-> yPoints,
                          gridSpacingM |-> gridSpacingM,
                          lengthM |-> lengthM, widthM |-> widthM ],
         average |-> avgIlluminance,
         min |-> loop.min,
         max |-> loop.max,
         uniformity |-> QuotientToFixed2(loop.min, avgIlluminance) ]

\* rooms of 1 x 2 and of 2 x 2 grid points
InitSim ==
    /\ \E l \in {20, 40}, r \in 0..MaxLum, c \in 0..MaxLum :
          sim = [ pc |-> "ready",
                  formData |->
                      [ room |-> [ length |-> l, lengthUnit |-> "m",
                                   width |-> 40, widthUnit |-> "m" ],
                        luminaires |-> [rows |-> r, columns |-> c],
                        calculation |-> [gridSpacing |-> 25, gridSpacingUnit |-> "m"] ],
                  results |-> <<>> ]
    /\ glare = NoGlare
    /\ par = NoPar /\ app = NoApp /\ store = NoStore
    /\ lines = <<>> /\ input = [tilt |-> "NONE"] /\ ppc = "idle" /\ lineIndex = 0
    /\ header = NoHeader /\ tilt = NoTilt /\ photometric = NoData
    /\ dataset = NoDataset /\ query = <<>> /\ intensity = NoIntensity
    /\ gpc = "idle" /\ params = NoParams /\ results = NoResults /\ stats = NoStats
    /\ cupc = "idle" /\ roomConfig = NoRoomConfig /\ cuFn = "" /\ cu = 0

\* one invocation with the same formData; two are observed
InvokeSimulated ==
    /\ sim.pc = "ready"
    /\ Len(sim.results) < 2
    /\ LET f == sim.formData
           xPoints == GridPoints(ToMetres(f.room.length, f.room.lengthUnit), 250000)
           yPoints == GridPoints(ToMetres(f.room.width, f.room.widthUnit), 250000)
       IN \E noise \in [1..yPoints -> [1..xPoints -> {-1000, 0, 999}]] :
             sim' = [sim EXCEPT !.results = Append(@, SimulatedPointByPoint(f, noise))]
    /\ UNCHANGED <<parseVars, interpVars, gridVars, cuVars, glare, par, app, store>>

SpecSim == InitSim /\ [][InvokeSimulated]_vars

\* C18: two invocations of the grid calculation with equal inputs return
\* equal grids, min, max, average and uniformity.
C18_EqualInputsEqualResults ==
    Len(sim.results) = 2 => sim.results[1] = sim.results[2]

(***************************************************************************)
(* Properties of the line cursor of IESParser.parse                        *)
(***************************************************************************)
\* C19: the phases run in order over one line cursor, each starting at the
\* line after the last one the phase before consumed: the header ends at
\* the tilt line, the lamp record is read from the line after the tilt
\* section (after the whole tilt table when TILT=INCLUDE), and when parse
\* returns every line of the file has been consumed.  (Files with a tilt line.)
C19_PhasesShareCursor ==
    input.tilt # "MISSING" =>
        /\ ppc \in {"tilt", "photometric", "done"} => header.endLine = Len(HeaderLines)
        /\ ppc \in {"photometric", "done"} =>
              /\ tilt.endLine = Len(HeaderLines) + Len(TiltLines(input.tilt))
              /\ lines[tilt.endLine + 1] = LampLine(input.nV, input.nH)
        /\ ppc = "done" => photometric.endLine = Len(lines)

(***************************************************************************)
(* Properties of the bracketing of getIntensityAtAngle                     *)
(***************************************************************************)
\* the weight n/d lies in [0,1]
UnitWeight(r) == r.d > 0 /\ r.n >= 0 /\ r.n <= r.d

\* the pair is adjacent (or the array has a single entry)
AdjacentPair(angles, b) == b.upper = b.lower + 1 \/ Len(angles) = 1

\* C20: getIntensityAtAngle never extrapolates: for a query below the first
\* or above the last entry of an angle array the bracketing pair is an
\* adjacent pair of the array and the interpolation weights lie in [0,1],
\* so the result lies between the smallest and the largest of the four
\* candela values it combines.
C20_NoExtrapolation ==
    query # <<>> =>
        LET h == NormalizeHorizontal(query[2])
            v == ClampVertical(query[1])
            bv == FindBracket(dataset.verticalAngles, v)
            bh == FindBracket(dataset.horizontalAngles, h)
            four == { dataset.candela[i + 1][j + 1] :
                        i \in {bh.lower, bh.upper}, j \in {bv.lower, bv.upper} }
        IN /\ AdjacentPair(dataset.verticalAngles, bv)
           /\ AdjacentPair(dataset.horizontalAngles, bh)
           /\ UnitWeight(InterpRatio(dataset.verticalAngles, bv, v))
           /\ UnitWeight(InterpRatio(dataset.horizontalAngles, bh, h))
           /\ \E lo \in four, hi \in four :
                 lo * intensity.d <= intensity.n /\ intensity.n <= hi * intensity.d

(***************************************************************************)
(* The distribution-type coefficient of utilization as a weighted sum of   *)
(* the two base values.                                                    *)
(***************************************************************************)
\* tenths of the weights of (direct, indirect) by the type of the luminaire
BlendWeights(type) ==
    IF type \in {"wallwash", "track"} THEN <<7, 3>>
    ELSE IF type = "pendant" THEN <<5, 5>>
    ELSE IF type \in {"cove", "uplighting"} THEN <<0, 10>>
    ELSE <<10, 0>>

\* ten times the weighted sum of the base values of the room in hand
WeightedBase ==
    LET r == roomConfig.reflectances
        rcr == CalculateRoomCavityRatio(roomConfig)
        w == BlendWeights(roomConfig.luminaireType)
    IN w[1] * CalculateDirectCU(rcr, r.ceiling, r.walls, r.floor)
       + w[2] * CalculateIndirectCU(rcr, r.ceiling, r.walls, r.floor)

RoomCavityRatioFormula ==
    RoundDiv(5 * 100 * (roomConfig.height - roomConfig.workPlaneHeight)
                 * (roomConfig.length + roomConfig.width),
             roomConfig.length * roomConfig.width)

\* C22: the three calculateRoomCavityRatio functions, the rcr of
\* calculateZonalCavityCoefficients and the perimeter form of
\* calculateAverageIlluminance all give 5 (height - workPlaneHeight) (L + W)
\* / (L W) for the same room.
C22_RoomCavityRatiosAgree ==
    cupc = "ratios" =>
        \A f \in DOMAIN cu : cu[f] = RoomCavityRatioFormula

\* the ratios of a room that is not square, all computed and not zero
C22_Witness ==
    /\ cupc = "ratios"
    /\ roomConfig.length # roomConfig.width
    /\ cu.perimeter > 0 /\ cu.zonal > 0

(***************************************************************************)
(* The grid loop of calculatePointByPoint split by row over workers.  A    *)
(* worker runs the body of the outer loop for one row, whichever row is    *)
(* still open, and keeps min, max and total of its own; the reduction      *)
(* combines the workers' statistics with Math.min, Math.max and + and      *)
(* divides as the function does.  The sequential function runs beside it.  *)
(***************************************************************************)
Workers == {"a", "b"}

\* the body of the outer loop for row y (0-based): the cells of the row
GridRow(p, g, y) == [x \in 1..g.xPoints |-> FinalIlluminance(p, g, x - 1, y)]

\* Math.min, Math.max and + of two workers' statistics
CombineStats(a, b) ==
    [ min |-> JsMin(a.min, b.min),
      max |-> JsMax(a.max, b.max),
      total |-> JsAdd(a.total, b.total),
      count |-> a.count + b.count ]

RECURSIVE ReduceStats(_, _, _)
ReduceStats(partial, ws, acc) ==
    IF ws = {} THEN acc
    ELSE LET w == CHOOSE v \in ws : TRUE
         IN ReduceStats(partial, ws \ {w}, CombineStats(acc, partial[w]))

WorkerRequests ==
    { p \in Requests : /\ p.luminaires.flux = 5000
                        /\ p.luminaires.suspensionHeight = 0
                        /\ p.luminaires.rows = p.luminaires.columns
                        /\ p.calculation.gridSpacing = 25 }

InitWorkers ==
    /\ gpc = "ready"
    /\ params \in WorkerRequests
    /\ results = NoResults
    /\ stats = NoStats
    /\ par = [ pc |-> "split",
               rows |-> [y \in 1..Geometry(params).yPoints |-> <<>>],
               done |-> {},
               partial |-> [w \in Workers |-> StartStats],
               result |-> NoResults ]
    /\ lines = <<>> /\ input = [tilt |-> "NONE"] /\ ppc = "idle" /\ lineIndex = 0
    /\ header = NoHeader /\ tilt = NoTilt /\ photometric = NoData
    /\ dataset = NoDataset /\ query = <<>> /\ intensity = NoIntensity
    /\ cupc = "idle" /\ roomConfig = NoRoomConfig /\ cuFn = "" /\ cu = 0
    /\ glare = NoGlare /\ sim = NoSim /\ app = NoApp /\ store = NoStore

\* a worker takes one of the open rows
WorkerRow ==
    /\ par.pc = "split"
    /\ \E w \in Workers : \E y \in DOMAIN par.rows \ par.done :
          LET row == GridRow(params, Geometry(params), y - 1)
          IN par' = [par EXCEPT !.rows[y] = row,
                                !.done = @ \cup {y},
                                !.partial[w] = RowStats(row, 1, @)]
    /\ UNCHANGED <<parseVars, interpVars, gridVars, cuVars, glare, sim, app, store>>

\* the final reduction of min, max and sum, and the average of line 100
ReduceWorkers ==
    /\ par.pc = "split"
    /\ par.done = DOMAIN par.rows
    /\ LET g == Geometry(params)
           all == ReduceStats(par.partial, Workers, StartStats)
       IN par' = [par EXCEPT !.pc = "reduced",
                             !.result = [ grid |-> par.rows,
                                          min |-> all.min,
                                          max |-> all.max,
                                          average |-> RoundedAverage(all.total,
                                                          g.xPoints * g.yPoints) ]]
    /\ UNCHANGED <<parseVars, interpVars, gridVars, cuVars, glare, sim, app, store>>

SpecWorkers == InitWorkers /\ [][PointByPoint \/ WorkerRow \/ ReduceWorkers]_vars

CalcTypes == {"point-by-point", "average", "utilization", "uniformity", "luminance"}

\* what data-calc of a button can be: a known type or some other text
ButtonTypes == CalcTypes \cup {"other"}

\* a grid spacing typed into the form: a positive number, or zero
FormSpacings == {"positive", "zero"}

Null == [kind |-> "null"]

\* a submit that is let through although a calculation is in flight
SubmitNeverRefused(a) == FALSE

\* if (appState.isCalculating) return;
SubmitRefused(a) == a.isCalculating

\* the calculations that run the grid loop never return on a zero spacing
\* (xPoints is Infinity)
CalculationHangs(type, formData) ==
    type \in {"point-by-point", "uniformity", "luminance"} /\ formData = "zero"

\* the switch over the calculation functions: only calculatePointByPoint's
\* result holds grid and dimensions
CalculationResults(type, formData) ==
    [kind |-> type, formData |-> formData, dimensions |-> (type = "point-by-point")]

\* displayResults -> renderTabContent -> render...: each renderer reads
\* results.dimensions.xPoints, a TypeError when dimensions is undefined
DisplayResultsThrows(shown) == ~shown.dimensions

NoRun == [selected |-> "", executed |-> "", before |-> Null, enabled |-> FALSE]

InitApp ==
    /\ \E intact \in BOOLEAN, disabled \in BOOLEAN :
         app = [ pc |-> "running",
                 formIntact |-> intact,
                 currentCalculationType |-> "point-by-point",
                 calculationResults |-> Null,
                 isCalculating |-> FALSE,
                 timers |-> <<>>,
                 exportDisabled |-> disabled,
                 event |-> "load",
                 run |-> NoRun ]
    /\ lines = <<>> /\ input = [tilt |-> "NONE"] /\ ppc = "idle" /\ lineIndex = 0
    /\ header = NoHeader /\ tilt = NoTilt /\ photometric = NoData
    /\ dataset = NoDataset /\ query = <<>> /\ intensity = NoIntensity
    /\ gpc = "idle" /\ params = NoParams /\ results = NoResults /\ stats = NoStats
    /\ cupc = "idle" /\ roomConfig = NoRoomConfig /\ cuFn = "" /\ cu = 0
    /\ glare = NoGlare /\ sim = NoSim /\ par = NoPar /\ store = NoStore

HandleCalcTypeChange ==
    /\ app.pc = "running"
    /\ \E calc \in ButtonTypes :
         app' = [app EXCEPT !.currentCalculationType = calc, !.event = "typeChange"]
    /\ UNCHANGED <<parseVars, interpVars, gridVars, cuVars, glare, sim, par, store>>

\* the handler up to its return: the refusal, or isCalculating = true,
\* getFormData() (which throws when a field of the form is missing) and
\* setTimeout
HandleFormSubmit ==
    /\ app.pc = "running"
    /\ \E spacing \in FormSpacings :
         app' = IF SubmitRefused(app) THEN [app EXCEPT !.event = "submitRefused"]
                ELSE IF ~app.formIntact THEN
                    [app EXCEPT !.isCalculating = TRUE, !.event = "submitThrew"]
                ELSE [app EXCEPT !.isCalculating = TRUE,
                                 !.timers = Append(@, [ formData |-> spacing,
                                     selected |-> app.currentCalculationType,
                                     before |-> app.calculationResults ]),
                                 !.event = "submitAccepted"]
    /\ UNCHANGED <<parseVars, interpVars, gridVars, cuVars, glare, sim, par, store>>

\* the callback of setTimeout: try / catch / finally
DeferredCalculation ==
    /\ app.pc = "running"
    /\ app.timers # <<>>
    /\ LET timer == Head(app.timers)
           type == app.currentCalculationType
           rest == [app EXCEPT !.timers = Tail(@)]
           ran == [selected |-> timer.selected, executed |-> type,
                   before |-> timer.before, enabled |-> FALSE]
       IN app' =
            IF type \notin CalcTypes THEN
                \* throw new Error('Unknown calculation type')
                [rest EXCEPT !.isCalculating = FALSE, !.event = "stepFailed", !.run = ran]
            ELSE IF CalculationHangs(type, timer.formData) THEN
                [rest EXCEPT !.pc = "hung", !.event = "stepHung", !.run = ran]
            ELSE LET calculated == CalculationResults(type, timer.formData)
                 IN IF DisplayResultsThrows(calculated) THEN
                        [rest EXCEPT !.calculationResults = calculated,
                                     !.isCalculating = FALSE,
                                     !.event = "stepFailed", !.run = ran]
                    ELSE [rest EXCEPT !.calculationResults = calculated,
                                      !.exportDisabled = FALSE,
                                      !.isCalculating = FALSE,
                                      !.event = "stepSucceeded",
                                      !.run = [ran EXCEPT !.enabled = TRUE]]
    /\ UNCHANGED <<parseVars, interpVars, gridVars, cuVars, glare, sim, par, store>>

ResetForm ==
    /\ app.pc = "running"
    /\ app' = [app EXCEPT !.exportDisabled = TRUE, !.event = "reset"]
    /\ UNCHANGED <<parseVars, interpVars, gridVars, cuVars, glare, sim, par, store>>

SpecApp ==
    InitApp /\ [][HandleCalcTypeChange \/ HandleFormSubmit \/ DeferredCalculation
                  \/ ResetForm]_vars

\* a timer that was set fires
SpecAppLive ==
    /\ InitApp
    /\ [][HandleCalcTypeChange \/ HandleFormSubmit \/ DeferredCalculation
          \/ ResetForm]_vars
    /\ WF_vars(DeferredCalculation)

\* C24: at most one calculation is in flight: a submit that arrives while
\* isCalculating is true sets no timer and changes nothing of appState, so no
\* second deferred calculation is ever pending.
C24_OneInFlight ==
    [][ /\ Len(app'.timers) <= 1
        /\ (app.isCalculating /\ app'.event \in {"submitRefused", "submitAccepted",
                                                  "submitThrew"})
             => /\ app'.timers = app.timers
                /\ app'.isCalculating = app.isCalculating
                /\ app'.calculationResults = app.calculationResults
                /\ app'.currentCalculationType = app.currentCalculationType
                /\ app'.exportDisabled = app.exportDisabled ]_vars

\* a submit was refused while the deferred calculation of another is pending
C24_Witness ==
    app.pc = "running" /\ app.event = "submitRefused" /\ Len(app.timers) = 1

\* C25: after an accepted submit isCalculating becomes false again, whether
\* the calculation succeeds or throws, displaying throws, or reading the
\* form data fails.
C25_CalculatingEnds ==
    (app.pc # "idle" /\ app.isCalculating) ~> (~app.isCalculating)

\* C26: the calculation run for an accepted submit is of the type that was
\* selected when the submit was accepted.
C26_TypeOfSubmit ==
    (app.pc # "idle" /\ app.event \in {"stepSucceeded", "stepFailed", "stepHung"})
        => app.run.executed = app.run.selected

\* C27: when the deferred step ends in its catch branch, calculationResults
\* is what it was before the submit and the step enabled no export button.
C27_ErrorKeepsResults ==
    (app.pc # "idle" /\ app.event = "stepFailed")
        => (app.calculationResults = app.run.before /\ ~app.run.enabled)

(***************************************************************************)
(* ProjectManager: saveProject, loadProject and deleteProject over the     *)
(* 'calqlux-projects' item of localStorage.  The item is absent, or the    *)
(* JSON text of an object whose own properties are the projects by id.     *)
(***************************************************************************)
MaxSaves == 3

\* ids as generateUniqueId makes them, and one that names a property every
\* object inherits from Object.prototype
ProjectIds == {"p_1", "p_2", "constructor"}

ObjectPrototypeKeys == {"constructor"}

\* what projects[id] gives for an inherited property: a function
InheritedFunction == [kind |-> "function"]

\* the results a project may carry: none, a number, or the NaN of a grid
\* with a single-point axis
ProjectResults == {Null, Num(300), NaN}

\* JSON.parse(JSON.stringify(v)): NaN and the infinities are written as null
JsonRoundTrip(v) == IF v \in {NaN, Infinity, NegInfinity} THEN Null ELSE v

\* JSON.parse(JSON.stringify(project))
StoredProject(project) == [project EXCEPT !.results = JsonRoundTrip(@)]

\* the value of a property that an object neither has nor inherits
NoProperty == [kind |-> "undefined"]

\* projects[id]: the own property, else the inherited one, else undefined
ProjectAt(projects, id) ==
    IF id \in DOMAIN projects THEN projects[id]
    ELSE IF id \in ObjectPrototypeKeys THEN InheritedFunction
    ELSE NoProperty

\* loadProject(id) on the item as it stands
LoadProjectOf(item, id) ==
    IF ~item.set THEN Null
    ELSE IF ProjectAt(item.projects, id) = NoProperty THEN Null
    ELSE ProjectAt(item.projects, id)

InitStore ==
    /\ store = [ pc |-> "running",
                 item |-> [set |-> FALSE, projects |-> [i \in {} |-> Null]],
                 now |-> 0,
                 saved |-> [i \in ProjectIds |-> Null],
                 last |-> [op |-> "none"] ]
    /\ lines = <<>> /\ input = [tilt |-> "NONE"] /\ ppc = "idle" /\ lineIndex = 0
    /\ header = NoHeader /\ tilt = NoTilt /\ photometric = NoData
    /\ dataset = NoDataset /\ query = <<>> /\ intensity = NoIntensity
    /\ gpc = "idle" /\ params = NoParams /\ results = NoResults /\ stats = NoStats
    /\ cupc = "idle" /\ roomConfig = NoRoomConfig /\ cuFn = "" /\ cu = 0
    /\ glare = NoGlare /\ sim = NoSim /\ par = NoPar /\ app = NoApp

\* saveProject(project); localStorage.setItem may throw (quota), and then
\* the function returns false
SaveProject ==
    /\ store.pc = "running"
    /\ store.now < MaxSaves
    /\ \E id \in ProjectIds, res \in ProjectResults, written \in BOOLEAN :
         LET project == [id |-> id, modifiedDate |-> store.now + 1, results |-> res]
             old == store.item.projects
             projects == [i \in DOMAIN old \cup {id} |->
                             IF i = id THEN StoredProject(project) ELSE old[i]]
             item == IF written THEN [set |-> TRUE, projects |-> projects]
                     ELSE store.item
         IN store' = [store EXCEPT
                !.item = item,
                !.now = @ + 1,
                !.saved = IF written THEN [@ EXCEPT ![id] = project] ELSE @,
                !.last = [ op |-> "save", id |-> id, ret |-> written,
                           othersKept |-> \A o \in ProjectIds \ {id} :
                               LoadProjectOf(item, o) = LoadProjectOf(store.item, o) ]]
    /\ UNCHANGED <<parseVars, interpVars, gridVars, cuVars, glare, sim, par, app>>

LoadProject ==
    /\ store.pc = "running"
    /\ \E id \in ProjectIds :
         store' = [store EXCEPT
                !.last = [op |-> "load", id |-> id, ret |-> LoadProjectOf(store.item, id)]]
    /\ UNCHANGED <<parseVars, interpVars, gridVars, cuVars, glare, sim, par, app>>

DeleteProject ==
    /\ store.pc = "running"
    /\ \E id \in ProjectIds, written \in BOOLEAN :
         LET old == store.item.projects
             found == store.item.set /\ ProjectAt(old, id) # NoProperty
             projects == [i \in DOMAIN old \ {id} |-> old[i]]
             deleted == found /\ written
             item == IF deleted THEN [set |-> TRUE, projects |-> projects]
                     ELSE store.item
         IN store' = [store EXCEPT
                !.item = item,
                !.saved = IF deleted THEN [@ EXCEPT ![id] = Null] ELSE @,
                !.last = [ op |-> "delete", id |-> id, ret |-> deleted,
                           wasAbsent |-> store.saved[id] = Null,
                           unchanged |-> item = store.item,
                           othersKept |-> \A o \in ProjectIds \ {id} :
                               LoadProjectOf(item, o) = LoadProjectOf(store.item, o) ]]
    /\ UNCHANGED <<parseVars, interpVars, gridVars, cuVars, glare, sim, par, app>>

SpecStore == InitStore /\ [][SaveProject \/ LoadProject \/ DeleteProject]_vars

\* C28: loadProject(id) returns the content of the last successful
\* saveProject of that id unless a successful deleteProject(id) followed, and
\* null otherwise; a save or delete of one id changes nothing for another
\* id; deleteProject of an absent id returns false and leaves the store as
\* it was.
C28_StoreRoundTrip ==
    store.pc # "idle" =>
        /\ store.last.op = "load" => store.last.ret = store.saved[store.last.id]
        /\ store.last.op \in {"save", "delete"} => store.last.othersKept
        /\ (store.last.op = "delete" /\ store.last.wasAbsent)
              => (~store.last.ret /\ store.last.unchanged)

\* C29: when an axis has a single sample point (the room is shorter than the
\* grid spacing), every sample coordinate is still a number and every cell,
\* min, max and average is a finite number.
C29_SinglePointAxisFinite ==
    (Calculated /\ (results.dimensions.xPoints = 1 \/ results.dimensions.yPoints = 1))
        => LET d == results.dimensions
           IN /\ \A x \in 0..(d.xPoints - 1) : IsNum(Coord(x, d.xPoints, d.lengthM))
              /\ \A y \in 0..(d.yPoints - 1) : IsNum(Coord(y, d.yPoints, d.widthM))
              /\ \A y \in 1..Len(results.grid) : \A x \in 1..Len(results.grid[y]) :
                    IsNum(results.grid[y][x])
              /\ IsNum(results.min) /\ IsNum(results.max) /\ IsNum(results.average)

\* C30: the grid spacing of the result metadata is the distance between
\* adjacent sample points along both axes (to the last digit of the metre
\* scale), so that x * gridSpacingM is where cell x was computed.
C30_SpacingIsSampleDistance ==
    Calculated =>
        LET d == results.dimensions
        IN /\ \A x \in 1..(d.xPoints - 1) :
                Abs(Coord(x, d.xPoints, d.lengthM).v - x * d.gridSpacingM) <= 1
           /\ \A y \in 1..(d.yPoints - 1) :
                Abs(Coord(y, d.yPoints, d.widthM).v - y * d.gridSpacingM) <= 1

=============================================================================
